---- MODULE Spec2Model ----
(***************************************************************************)
(* A model of the token front-end: the connection utilities                *)
(* (getReliableConnection, withRetry) and the submit handlers of the form  *)
(* panels (create, mint, send, airdrop, list panel).                       *)
(***************************************************************************)
EXTENDS Integers, Sequences, FiniteSets

\* ------------------------------------------------------------------ bounds

\* Largest maxRetries argument explored for a stand-alone withRetry call.
MaxRetriesBound == 3

\* Number of distinct well-formed RPC endpoint strings handed to the cache.
NumEndpoints == 4

\* Amount strings a user may type: the first MaxAmountHalves entries of
\* AmountStrings ("0.5", "1", "1.5", ...).
MaxAmountHalves == 3

\* Longest string typed into the create panel's decimals field.
MaxDecimalsInputLen == 2

\* Interval timers the list panel sets in one behaviour.
MaxTimerIds == 4

\* fetchTokens calls in flight together.
MaxFetching == 2

\* Math.random() returns r = k / JitterSteps, k in 0 .. JitterSteps - 1.
JitterSteps == 2

\* The wallet info panel is followed for MaxClock units of 3000 ms.
MaxClock == 12

\* ------------------------------------------------------- program constants

\* withRetry's default maxRetries.
DefaultMaxRetries == 3

\* withRetry's default baseDelay, in milliseconds.
DefaultBaseDelay == 1000

\* fetchBalance skips a call made less than 3000 ms after the last fetch:
\* one unit of the clock.
ThrottleUnits == 1

\* setInterval(fetchBalance, 30000): ten units of the clock.
IntervalUnits == 10

\* useState(9): the decimals a panel holds before any mint was read.
DefaultDecimals == 9

\* The decimals hard-coded by the first mint and send panels: Math.pow(10, 9).
HardCodedDecimals == 9

\* ------------------------------------------------------------------ values

\* JavaScript values that cross withRetry: what fn resolves to or throws.
\* kind   : "Error" (instanceof Error), "string", "object", "value", "none"
\* origin : who created the object ("fn" or "withRetry"); two Error objects
\*          with the same message but different origins are different objects
\* msg    : the message of an Error, or the text of any other value
NoValue == [kind |-> "none", origin |-> "none", msg |-> ""]

Messages == {"timeout", "403", "insufficient funds", "boom"}

\* Everything a wrapped operation may throw: Error instances, bare strings
\* and a plain object.
ThrownValues ==
    [kind : {"Error"}, origin : {"fn"}, msg : Messages]
      \cup [kind : {"string"}, origin : {"fn"}, msg : Messages]
      \cup {[kind |-> "object", origin |-> "fn", msg |-> "{}"]}

\* Everything a stand-alone wrapped operation may resolve to.
ResolvedValues == [kind : {"value"}, origin : {"fn"}, msg : {"v1", "v2"}]

\* String(value) of JavaScript.
JsString(v) ==
    CASE v.kind = "Error"  -> "Error: " \o v.msg
      [] v.kind = "object" -> "[object Object]"
      [] OTHER             -> v.msg

\* ------------------------------------------------------------------- state

VARIABLES
    \* --- connection cache (module-level connectionCache) ---
    connectionCache,   \* own properties: endpoint -> handle
    nextHandle,        \* identity given to the next constructed Connection
    constructed,       \* history: endpoint -> number of Connections constructed
    returnedLog,       \* history: <<endpoint, value>> pairs returned so far
    lastCall,          \* history: the latest getReliableConnection call
    \* --- one activation of withRetry ---
    rpc,               \* position: "off", "call", "sleep", "returned", "thrown"
    rctx,              \* who called: "standalone" or "getMint"
    maxRetries,
    baseDelay,
    attempt,
    lastError,
    retResult,         \* value returned or raised by withRetry
    calls,             \* history: invocations of fn
    sleeps,            \* history: completed sleeps
    delays,            \* history: the delays computed by this activation
    fails,             \* history: invocations of fn that threw
    lastThrown,        \* history: value thrown by the latest failing invocation
    lastResolved,      \* history: value resolved by the latest successful invocation
    \* --- one mounted panel ---
    panel,             \* which panel component this is
    publicKey,         \* useWallet().publicKey; "" is null
    mintAddress,       \* form field
    recipientAddress,  \* form field
    amount,            \* form field (mintAmount in the list panel)
    tokenName,         \* form field
    tokenSymbol,       \* form field
    decimals,          \* useState(9)
    isLoading,         \* isLoading / isAirdropping / creatingATA / mintingTokens
    lastSignature,     \* create panel: useState(null); "" is null
    manualToken,       \* list panel: useState(null)
    prevSignature,     \* wallet: the signature it issued last
    sibling,           \* list panel: its other action, "idle" or "running"
    run,               \* the activation of the panel's handler
    \* --- the list panel's polling effect ---
    mounted,           \* the component instance is mounted
    connection,        \* useConnection().connection (its identity)
    timers,            \* the page's active interval timers
    intervalId,        \* the id the pending cleanup holds; 0: no cleanup
    nextTimerId,       \* the id the next setInterval returns
    fetching,          \* fetchTokens calls in flight, per publicKey they hold
    tokens,            \* useState([]): rows [owner, endpoint]
    listLoading,       \* the list panel's isLoading
    listError,         \* the list panel's error; "" is null
    lastPollEnd,       \* history: how the latest fetchTokens ended
    lastPollVia,       \* history: what started the latest fetchTokens
    strayPolls,        \* history: polls started unmounted or without wallet
    phase,             \* commit: "cleanup", "effect" or "settled"
    \* --- the wallet info panel's balance effect ---
    balance,           \* useState(null): "" is null, else "known"
    infoLoading,       \* the wallet info panel's isLoading
    lastFetchTime,     \* useState(0)
    clock,             \* Date.now(), in units of 3000 ms
    timerSetAt,        \* when the active 30 s interval was set; -1: none
    fetchStartedAt,    \* `now` of the getBalance in flight; -1: none
    lastFailedAt,      \* history: when a fetch last failed with balance null
    restartedAt        \* history: when the next fetch after it started; -1: none

cacheVars == <<connectionCache, nextHandle, constructed, returnedLog, lastCall>>
retryVars == <<rpc, rctx, maxRetries, baseDelay, attempt, lastError, retResult,
               calls, sleeps, delays, fails, lastThrown, lastResolved>>
formVars == <<mintAddress, recipientAddress, amount, tokenName, tokenSymbol>>
panelVars == <<panel, sibling, publicKey, formVars, decimals, isLoading, lastSignature,
               manualToken, prevSignature, run>>
listVars == <<tokens, listLoading, listError, lastPollEnd>>
pollVars == <<mounted, connection, timers, intervalId, nextTimerId, fetching,
              listVars, lastPollVia, strayPolls, phase>>
infoVars == <<balance, infoLoading, lastFetchTime, clock, timerSetAt,
              fetchStartedAt, lastFailedAt, restartedAt>>
vars == <<cacheVars, retryVars, panelVars, pollVars, infoVars>>

\* ------------------------------------------------------- connection cache

Undefined == [kind |-> "undefined", id |-> 0, endpoint |-> ""]

\* Well-formed endpoints, an ill-formed one (the Connection constructor
\* throws on it) and a key that every plain object inherits.
EndpointPool ==
    <<"https://api.devnet.solana.com",
      "https://api.mainnet-beta.solana.com",
      "https://solana-mainnet.g.alchemy.com/v2/demo",
      "https://devnet.genesysgo.net",
      "https://devnet.solana.com">>
ValidEndpoints == {EndpointPool[i] : i \in 1..NumEndpoints}
InvalidEndpoints == {"ftp://rpc"}
PrototypeKeys == {"constructor"}
Endpoints == ValidEndpoints \cup InvalidEndpoints \cup PrototypeKeys

\* connectionCache[endpoint] on a plain object: own property first, then the
\* prototype chain.
CacheLookup(cache, endpoint) ==
    IF endpoint \in DOMAIN cache THEN cache[endpoint]
    ELSE IF endpoint \in PrototypeKeys
         THEN [kind |-> "inherited", id |-> 0, endpoint |-> endpoint]
         ELSE Undefined

Truthy(v) == v.kind # "undefined"

\* mutant: the cache test never succeeds
CacheHitNever(cache, endpoint) == FALSE

\* the test `if (connectionCache[endpoint])`
CacheHit(cache, endpoint) == Truthy(CacheLookup(cache, endpoint))

\* connectionCache[endpoint] = connection
CacheStore(cache, endpoint, handle) ==
    [e \in DOMAIN cache \cup {endpoint} |->
        IF e = endpoint THEN handle ELSE cache[e]]

GetReliableConnection(endpoint) ==
    IF CacheHit(connectionCache, endpoint)
    THEN /\ returnedLog' = returnedLog \cup
                {<<endpoint, CacheLookup(connectionCache, endpoint)>>}
         /\ lastCall' = [endpoint |-> endpoint, outcome |-> "hit"]
         /\ UNCHANGED <<connectionCache, nextHandle, constructed>>
    ELSE IF endpoint \in InvalidEndpoints
    THEN \* new Connection(endpoint) throws: nothing stored, nothing returned
         /\ lastCall' = [endpoint |-> endpoint, outcome |-> "threw"]
         /\ UNCHANGED <<connectionCache, nextHandle, constructed, returnedLog>>
    ELSE LET handle == [kind |-> "Connection", id |-> nextHandle,
                        endpoint |-> endpoint]
         IN /\ connectionCache' = CacheStore(connectionCache, endpoint, handle)
            /\ nextHandle' = nextHandle + 1
            /\ constructed' = [constructed EXCEPT ![endpoint] = @ + 1]
            /\ returnedLog' = returnedLog \cup {<<endpoint, handle>>}
            /\ lastCall' = [endpoint |-> endpoint, outcome |-> "miss"]

CallGetReliableConnection ==
    /\ \E endpoint \in Endpoints : GetReliableConnection(endpoint)
    /\ UNCHANGED <<retryVars, panelVars, pollVars, infoVars>>

InitCache ==
    /\ connectionCache = <<>>
    /\ nextHandle = 1
    /\ constructed = [e \in Endpoints |-> 0]
    /\ returnedLog = {}
    /\ lastCall = [endpoint |-> "", outcome |-> "none"]

\* ---------------------------------------------------------- panel: values

\* The panel components of the repository (each handler is one of them).
\*   create        CreateToken.tsx  handleCreateToken
\*   mint          CreateToken.tsx  handleMintToken (MintToken, current)
\*   mintStale     part_002         handleMintToken (MintToken, reads state)
\*   mintV1        part_001         handleMintToken (MintToken, first)
\*   send          SendToken.tsx    handleSendToken (current)
\*   sendV1        part_000         handleSendToken (first)
\*   airdrop       part_004         handleAirdrop
\*   listCreateATA TokenList.tsx    createAssociatedTokenAccount
\*   listMint      TokenList.tsx    mintTokens
Panels == {"create", "mint", "mintStale", "mintV1", "send", "sendV1",
           "airdrop", "listCreateATA", "listMint", "listV1"}

RetryPanels == {"mint", "mintStale", "send"}
MintPanels == {"mint", "mintStale", "mintV1"}
SendPanels == {"send", "sendV1"}
ListPanels == {"listCreateATA", "listMint"}
\* the list panels that poll: the current one and its first version
PollPanels == ListPanels \cup {"listV1"}
\* panels whose transaction carries a transfer or mint-to of a typed amount
AmountPanels == MintPanels \cup SendPanels \cup {"listMint"}

\* connection.rpcEndpoint: clusterApiUrl(WalletAdapterNetwork.Devnet)
RpcEndpoint == EndpointPool[1]

\* The endpoint of the connection a panel hands to sendTransaction and
\* confirms with: the create panel constructs its own tokenConnection, the
\* current send and mint panels take getReliableConnection(
\* connection.rpcEndpoint), the others the connection of useConnection().
PanelEndpoint(p) ==
    IF p = "create" THEN "https://api.mainnet-beta.solana.com"
    ELSE RpcEndpoint

\* The mint address the list panel fills in when it mounts.
PresetMint == "6MdiCBZcWy6m633HzNQYoWyHFZogwXAWZfi8u1ioY4MS"

\* Address strings typed into a field: empty, not base58, or a key.
MintAddresses == {"", "bad", "mint0", "mint2", PresetMint}
RecipientAddresses == {"", "bad", "rcpt"}
Wallets == {"wallet"}

\* mutant: any non-empty string is taken for a key
IsPublicKeyLenient(s) == s # ""

\* new web3.PublicKey(s) succeeds
IsPublicKey(s) == s \notin {"", "bad"}

\* On chain: the decimals of each mint.
MintDecimals(mint) ==
    CASE mint = "mint0" -> 0
      [] mint = "mint2" -> 2
      [] OTHER          -> 9

\* Amount strings, and Number(s) in units of one half.
AmountStrings == <<"0.5", "1", "1.5", "2", "2.5", "3">>
Amounts == {AmountStrings[i] : i \in 1..MaxAmountHalves}
NumberHalves(s) == CHOOSE i \in 1..Len(AmountStrings) : AmountStrings[i] = s

\* Number(amount) * Math.pow(10, d) for an amount of h halves. Both factors
\* and the product are exactly representable, so the product is the exact
\* rational h * 10^d / 2: `int` is its integer part and `exact` tells whether
\* it is an integer. (For d >= 1 the product is h * (10^d / 2), an integer.)
Product(h, d) ==
    IF d = 0
    THEN [int |-> h \div 2, exact |-> h % 2 = 0]
    ELSE [int |-> h * ((10 ^ d) \div 2), exact |-> TRUE]

\* BigInt(Math.floor(x)) in the current mint and send panels; BigInt(x) in
\* the list panel and the state-reading mint panel; the first panels pass
\* the number itself.
FloorsBeforeBigInt(p) == p \in {"mint", "send"}

\* The exponent the panel's conversion uses: the value just read from the
\* mint (actualDecimals, manualToken.decimals), the panel's `decimals` state
\* as the handler's closure holds it, or the literal 9.
DecimalsUsed(p, fetched, held) ==
    CASE p \in {"mint", "send", "listMint"} -> fetched
      [] p = "mintStale"                     -> held
      [] OTHER                               -> HardCodedDecimals

\* The amount conversion of panel p: the raw amount, or a RangeError when
\* BigInt is given a number that is not an integer.
Convert(p, amountString, d) ==
    LET x == Product(NumberHalves(amountString), d)
    IN IF x.exact \/ FloorsBeforeBigInt(p)
       THEN [threw |-> FALSE, raw |-> x.int]
       ELSE [threw |-> TRUE, raw |-> 0]

RangeError ==
    [kind |-> "Error", origin |-> "fn",
     msg |-> "The number cannot be converted to a BigInt"]

Instr(op, amt, scale) == [op |-> op, amount |-> amt, scale |-> scale]
CreateAta == Instr("createAssociatedTokenAccount", 0, 0)

PrimaryOp(p) == IF p \in SendPanels THEN "transfer" ELSE "mintTo"

\* mutant: the create instruction is never added
BuildInstructionsNoCreate(exists, primary) == <<primary>>

\* if (!accountInfo) transaction.add(create...); transaction.add(primary)
BuildInstructions(exists, primary) ==
    IF ~exists THEN <<CreateAta, primary>> ELSE <<primary>>

\* The four instructions of the create panel; the mint-to amount is
\* 1000000000 * Math.pow(10, decimals), kept as mantissa and exponent.
CreateTokenInstructions(d) ==
    <<Instr("createAccount", 0, 0), Instr("initializeMint", d, 0),
      CreateAta, Instr("mintTo", 1000000000, d)>>

Toast(type, text, id) == [type |-> type, text |-> text, id |-> id]

NoToken == [mint |-> "", decimals |-> 0, mintAuthority |-> ""]

\* The form fields as one record.
NoForm == [mintAddress |-> "", recipientAddress |-> "", amount |-> "",
           tokenName |-> "", tokenSymbol |-> ""]

\* fetchSpecificToken before its loop: no endpoint tried.
NoScan == [answers |-> <<>>, found |-> 0, queried |-> <<>>]

\* The handler's activation: its position, what its closure captured, its
\* locals, and a record of what it has done so far.
FreshRun ==
    [pc |-> "idle",
     overlapped |-> FALSE,       \* history: started while another was running
     startKey |-> "",            \* publicKey in the handler's closure
     startForm |-> NoForm,       \* the form fields in the handler's closure
     heldDecimals |-> DefaultDecimals,   \* `decimals` in the closure
     heldSignature |-> "",       \* `lastSignature` in the closure
     actualDecimals |-> DefaultDecimals,
     lookup |-> [state |-> "none", calls |-> 0, fails |-> 0],
                                 \* history: how the getMint lookup went
     scan |-> NoScan,            \* history: the loop of fetchSpecificToken
     auto |-> FALSE,             \* history: started by the auto-fill effect
     destExisted |-> "unknown",  \* history: the destination account check
     converted |-> "no",         \* history: "no", "ok", "threw"
     typed |-> "",               \* history: the amount string converted
     tx |-> <<>>,                \* transaction.instructions
     recentBlockhash |-> 0,
     blockhash |-> 0,
     signature |-> "",
     sentTo |-> "",              \* history: endpoint the submission went to
     confirmedAt |-> "",         \* history: endpoint asked for confirmation
     confirmArgs |-> [signature |-> "", blockhash |-> 0],
     toasts |-> <<>>,            \* notifications emitted by this activation
     netCalls |-> 0,             \* history: RPC requests that have settled
     submits |-> 0,              \* history: wallet sendTransaction calls
     outcome |-> "none",
     failedAt |-> "",
     caught |-> NoValue]

\* --------------------------------------------------------------- withRetry

\* mutant: every caught value is wrapped in a new Error
NormalizeErrorAlwaysWraps(error) ==
    [kind |-> "Error", origin |-> "withRetry", msg |-> JsString(error)]

\* lastError = error instanceof Error ? error : new Error(String(error))
NormalizeError(error) ==
    IF error.kind = "Error" THEN error
    ELSE [kind |-> "Error", origin |-> "withRetry", msg |-> JsString(error)]

\* mutant: the loop stops one attempt early
LoopContinuesStrict(a, m) == a < m

\* the loop test `attempt <= maxRetries`
LoopContinues(a, m) == a <= m

\* mutant: no sleep after the last-but-one failure
SleepNeededOffByOne(a, m) == a + 1 < m

\* the test `attempt < maxRetries` that guards the sleep
SleepNeeded(a, m) == a < m

\* throw lastError || new Error('Operation failed after retries')
RaisedValue(err) ==
    IF err.kind # "none" THEN err
    ELSE [kind |-> "Error", origin |-> "withRetry",
          msg |-> "Operation failed after retries"]

\* attempt++ followed by the loop test: call fn again or fall out and throw.
NextIteration ==
    /\ attempt' = attempt + 1
    /\ IF LoopContinues(attempt + 1, maxRetries)
       THEN rpc' = "call" /\ UNCHANGED retResult
       ELSE rpc' = "thrown" /\ retResult' = RaisedValue(lastError')

\* What fn may resolve to in the calling context: token.getMint resolves to
\* the mint's data.
Resolves(ctx) ==
    IF ctx = "getMint"
    THEN {[kind |-> "value", origin |-> "fn", msg |-> "mintInfo",
           decimals |-> MintDecimals(mintAddress)]}
    ELSE ResolvedValues

\* The baseDelay arguments a caller may pass.
BaseDelays == {-1000, 0, DefaultBaseDelay}

\* Delays are counted in units of 1 / (2 * JitterSteps) of a millisecond, so
\* that 0.5 + r * 0.5 = (JitterSteps + k) / (2 * JitterSteps) stays integral.
DelayUnit == 2 * JitterSteps

\* baseDelay * Math.pow(2, attempt), in delay units.
FullDelay(b, n) == b * 2^n * DelayUnit

\* baseDelay * Math.pow(2, attempt) * (0.5 + Math.random() * 0.5) with
\* Math.random() = k / JitterSteps, in delay units.
DelayNoJitter(b, n, k) == b * 2^n * DelayUnit
Delay(b, n, k) == b * 2^n * (JitterSteps + k)

\* One `await fn()`: fn resolves (withRetry returns) or throws (catch block).
RetryCall ==
    /\ rpc = "call"
    /\ calls' = calls + 1
    /\ \/ \E v \in Resolves(rctx) :
            /\ rpc' = "returned"
            /\ retResult' = v
            /\ lastResolved' = v
            /\ UNCHANGED <<attempt, lastError, fails, lastThrown, delays>>
       \/ \E e \in ThrownValues :
            /\ lastError' = NormalizeError(e)
            /\ lastThrown' = e
            /\ fails' = fails + 1
            /\ UNCHANGED lastResolved
            /\ IF SleepNeeded(attempt, maxRetries)
               THEN /\ rpc' = "sleep"
                    /\ \E k \in 0 .. JitterSteps - 1 :
                          delays' = Append(delays, Delay(baseDelay, attempt, k))
                    /\ UNCHANGED <<attempt, retResult>>
               ELSE NextIteration /\ UNCHANGED delays
    /\ UNCHANGED <<rctx, maxRetries, baseDelay, sleeps>>
    /\ run' = IF rctx = "getMint"
              THEN [run EXCEPT !.netCalls = @ + 1] ELSE run
    /\ UNCHANGED <<cacheVars, pollVars, infoVars, panel, sibling, publicKey, formVars,
                   decimals, isLoading,
                   lastSignature, manualToken, prevSignature>>

\* `await sleep(delay)` completes.
RetrySleep ==
    /\ rpc = "sleep"
    /\ sleeps' = sleeps + 1
    /\ lastError' = lastError
    /\ NextIteration
    /\ UNCHANGED <<rctx, maxRetries, baseDelay, delays, calls, fails, lastThrown,
                   lastResolved>>
    /\ UNCHANGED <<cacheVars, pollVars, infoVars, panelVars>>

\* Entry of withRetry(fn, m, b): the state before the first `await`.
WithRetryEntryDelay(ctx, m, b) ==
    /\ rctx' = ctx
    /\ maxRetries' = m
    /\ baseDelay' = b
    /\ delays' = <<>>
    /\ attempt' = 0
    /\ lastError' = NoValue
    /\ calls' = 0
    /\ sleeps' = 0
    /\ fails' = 0
    /\ lastThrown' = NoValue
    /\ lastResolved' = NoValue
    /\ IF LoopContinues(0, m)
       THEN rpc' = "call" /\ retResult' = NoValue
       ELSE rpc' = "thrown" /\ retResult' = RaisedValue(NoValue)

\* withRetry(fn, m): baseDelay takes its default.
WithRetryEntry(ctx, m) == WithRetryEntryDelay(ctx, m, DefaultBaseDelay)

\* A caller outside the panels invokes withRetry with any maxRetries and
\* any baseDelay.
StandaloneWithRetry ==
    /\ rpc \in {"off", "returned", "thrown"}
    /\ \E m \in -1..MaxRetriesBound, b \in BaseDelays :
          WithRetryEntryDelay("standalone", m, b)
    /\ UNCHANGED <<cacheVars, pollVars, infoVars, panelVars>>

\* withRetry's activation is over and its caller has taken the outcome.
RetryDiscard ==
    /\ rpc' = "off"
    /\ rctx' = "standalone"
    /\ maxRetries' = DefaultMaxRetries
    /\ baseDelay' = DefaultBaseDelay
    /\ delays' = <<>>
    /\ attempt' = 0
    /\ lastError' = NoValue
    /\ retResult' = NoValue
    /\ calls' = 0
    /\ sleeps' = 0
    /\ fails' = 0
    /\ lastThrown' = NoValue
    /\ lastResolved' = NoValue

InitRetry ==
    /\ rpc = "off"
    /\ rctx = "standalone"
    /\ maxRetries = DefaultMaxRetries
    /\ baseDelay = DefaultBaseDelay
    /\ delays = <<>>
    /\ attempt = 0
    /\ lastError = NoValue
    /\ retResult = NoValue
    /\ calls = 0
    /\ sleeps = 0
    /\ fails = 0
    /\ lastThrown = NoValue
    /\ lastResolved = NoValue

\* -------------------------------------------------------- panel: handlers

\* The keywords the catch blocks look for with message.includes(...).
Keywords(msg) ==
    CASE msg = "timeout"            -> {"timeout"}
      [] msg = "403"                -> {"403"}
      [] msg = "insufficient funds" -> {"insufficient funds"}
      [] OTHER                      -> {}

Includes(msg, word) == word \in Keywords(msg)

TypeErrorNoInfo ==
    [kind |-> "Error", origin |-> "fn", msg |-> "toast.info is not a function"]
ConfirmedButFailed ==
    [kind |-> "Error", origin |-> "fn", msg |-> "Transaction confirmed but failed"]

\* The wallet never issues the same signature twice in a row.
NewSignature(prev) == IF prev = "sig1" THEN "sig2" ELSE "sig1"

\* mutant: an early `return` leaves the try block without the finally
LoadingAfterNoFinallyOnReturn(exit) == exit = "return"

\* The loading flag after the handler left its try block through `exit`
\* ("return", "catch", "success"): finally { setIsLoading(false) }.
LoadingAfter(exit) == FALSE

\* The form fields of the current render.
Form == [mintAddress |-> mintAddress, recipientAddress |-> recipientAddress,
         amount |-> amount, tokenName |-> tokenName, tokenSymbol |-> tokenSymbol]

\* The `disabled` attribute of the panel's submit button, as far as it
\* depends on the loading flag: disabled={isLoading || ...} (the list panel:
\* creatingATA, mintingTokens; the airdrop panel: isAirdropping). A disabled
\* button dispatches no event. The other operands (!publicKey, !mintAmount)
\* are tested again by the handlers themselves.
SubmitDisabled == isLoading

\* The activation just after the guards passed: the closure's values.
Started(first) ==
    [FreshRun EXCEPT !.startKey = publicKey, !.startForm = Form,
                     !.overlapped = (run.pc # "idle"),
                     !.heldDecimals = decimals,
                     !.heldSignature = lastSignature, !.toasts = first]

\* A guard before setIsLoading(true) turned the submit down.
Rejected(notes) ==
    /\ run' = [FreshRun EXCEPT !.startKey = publicKey, !.startForm = Form,
                               !.toasts = notes,
                               !.outcome = "rejected"]
    /\ UNCHANGED <<isLoading, cacheVars, retryVars>>

\* `return` inside the try block, then the finally block.
Return(r, notes, out) ==
    /\ run' = [r EXCEPT !.pc = "idle", !.toasts = @ \o notes, !.outcome = out]
    /\ isLoading' = LoadingAfter("return")

\* The handler goes on to its next await.
Continue(r) ==
    /\ run' = r
    /\ isLoading' = TRUE

\* Whether the create panel's catch block reaches toast.info.
ReachesToastInfo(e, r) ==
    /\ e.kind = "Error"
    /\ ~Includes(e.msg, "403")
    /\ Includes(e.msg, "timeout")
    /\ r.heldSignature # ""

\* The notifications of panel p's catch block for the caught value e.
CatchToasts(p, e, r) ==
    CASE p = "send" ->
           <<Toast("error",
                   IF e.kind = "Error" THEN "Failed to send tokens: " \o e.msg
                   ELSE "Failed to send tokens. Please check the addresses and try again.",
                   "t")>>
      [] p \in {"mint", "mintStale"} ->
           <<Toast("error",
                   IF e.kind = "Error" THEN "Failed to mint tokens: " \o e.msg
                   ELSE "Failed to mint tokens. Please check the mint address and try again.",
                   "t")>>
      [] p = "sendV1" ->
           <<Toast("error", "Failed to send tokens. Please check the addresses and try again.", "")>>
      [] p = "mintV1" ->
           <<Toast("error", "Failed to mint tokens. Please check the mint address and try again.", "")>>
      [] p = "airdrop" ->
           <<Toast("error", "Failed to request airdrop. The faucet may be rate-limited. Try again later.", "t")>>
      [] p = "listCreateATA" ->
           <<Toast("dismiss", "", "create-ata"),
             Toast("error", "Failed to create token account", "")>>
      [] p = "listMint" ->
           <<Toast("dismiss", "", "mint-tokens"),
             Toast("error", "Failed to mint tokens", "")>>
      [] OTHER ->  \* create
           <<Toast("dismiss", "", "creating-token")>> \o
           (IF e.kind # "Error"
            THEN <<Toast("error", "Failed to create token. Please try again.", "")>>
            ELSE IF Includes(e.msg, "403")
            THEN <<Toast("error", "Access forbidden. Try using a different wallet or network.", "")>>
            ELSE IF Includes(e.msg, "timeout")
            THEN <<Toast("error", "Transaction may have succeeded but wasn't confirmed in time.", "")>>
            ELSE IF Includes(e.msg, "insufficient funds")
            THEN <<Toast("error", "Not enough SOL in your wallet for this operation.", "")>>
            ELSE <<Toast("error", "Failed to create token: " \o e.msg, "")>>)

\* The catch block, then the finally block. In the create panel the catch
\* block may call toast.info, which the notification library may not
\* define: the call then throws out of the catch block.
Caught(r, e) ==
    /\ isLoading' = LoadingAfter("catch")
    /\ \E infoShown \in (IF panel = "create" /\ ReachesToastInfo(e, r)
                         THEN BOOLEAN ELSE {TRUE}) :
         run' = [r EXCEPT
                   !.pc = "idle",
                   !.failedAt = r.pc,
                   !.caught = e,
                   !.outcome = IF infoShown THEN "failed" ELSE "threw",
                   !.toasts = @ \o CatchToasts(panel, e, r) \o
                       (IF panel = "create" /\ ReachesToastInfo(e, r) /\ infoShown
                        THEN <<Toast("info", r.heldSignature, "")>> ELSE <<>>)]

unchangedByStep == <<panel, sibling, publicKey, formVars, decimals, lastSignature,
                     manualToken, prevSignature, pollVars, infoVars>>

\* handleSendToken of SendToken.tsx, up to its first await.
HandleSendToken ==
    /\ panel = "send" /\ ~SubmitDisabled
    /\ UNCHANGED unchangedByStep
    /\ IF publicKey = ""
       THEN Rejected(<<Toast("error", "Please connect your wallet first", "")>>)
       ELSE IF mintAddress = "" \/ recipientAddress = "" \/ amount = ""
       THEN Rejected(<<Toast("error", "Please fill in all fields", "")>>)
       ELSE LET r == Started(<<Toast("loading", "Preparing transaction...", "t")>>)
            IN /\ GetReliableConnection(RpcEndpoint)
               /\ IF ~IsPublicKey(mintAddress)
                  THEN /\ Return(r, <<Toast("error", "Invalid mint address format", "t")>>,
                                 "invalidAddress")
                       /\ UNCHANGED retryVars
                  ELSE IF ~IsPublicKey(recipientAddress)
                  THEN /\ Return(r, <<Toast("error", "Invalid recipient address format", "t")>>,
                                 "invalidAddress")
                       /\ UNCHANGED retryVars
                  ELSE /\ Continue([r EXCEPT !.pc = "getMint"])
                       /\ WithRetryEntry("getMint", DefaultMaxRetries)

\* handleMintToken of the current and of the state-reading MintToken.
HandleMintToken ==
    /\ panel \in {"mint", "mintStale"} /\ ~SubmitDisabled
    /\ UNCHANGED unchangedByStep
    /\ IF publicKey = ""
       THEN Rejected(<<Toast("error", "Please connect your wallet first", "")>>)
       ELSE IF mintAddress = "" \/ amount = ""
       THEN Rejected(<<Toast("error", "Please fill in all fields", "")>>)
       ELSE LET r == Started(<<Toast("loading", "Preparing to mint tokens...", "t")>>)
            IN IF ~IsPublicKey(mintAddress)
               THEN /\ Return(r, <<Toast("error", "Invalid mint address format", "")>>,
                              "invalidAddress")
                    /\ UNCHANGED <<cacheVars, retryVars>>
               ELSE /\ GetReliableConnection(RpcEndpoint)
                    /\ Continue([r EXCEPT !.pc = "getMint"])
                    /\ WithRetryEntry("getMint", DefaultMaxRetries)

\* handleMintToken (part_001) and handleSendToken (part_000): no retry, no
\* loading notification; a malformed address is thrown into the catch block.
HandleFirstVersion ==
    /\ panel \in {"mintV1", "sendV1"} /\ ~SubmitDisabled
    /\ UNCHANGED <<unchangedByStep, cacheVars, retryVars>>
    /\ IF publicKey = ""
       THEN Rejected(<<Toast("error", "Please connect your wallet first", "")>>)
       ELSE IF mintAddress = "" \/ amount = ""
               \/ (panel = "sendV1" /\ recipientAddress = "")
       THEN Rejected(<<Toast("error", "Please fill in all fields", "")>>)
       ELSE LET r == [Started(<<>>) EXCEPT !.pc = "validate"]
            IN IF ~IsPublicKey(mintAddress)
                  \/ (panel = "sendV1" /\ ~IsPublicKey(recipientAddress))
               THEN Caught(r, [kind |-> "Error", origin |-> "fn",
                               msg |-> "Invalid public key input"])
               ELSE Continue([r EXCEPT !.pc = "destCheck"])

\* handleCreateToken, up to `await getMinimumBalanceForRentExemption`.
HandleCreateToken ==
    /\ panel = "create" /\ ~SubmitDisabled
    /\ UNCHANGED <<unchangedByStep, cacheVars, retryVars>>
    /\ IF publicKey = ""
       THEN Rejected(<<Toast("error", "Please connect your wallet first", "")>>)
       ELSE IF tokenName = "" \/ tokenSymbol = ""
       THEN Rejected(<<Toast("error", "Please fill in all fields", "")>>)
       ELSE Continue([Started(<<>>) EXCEPT !.pc = "rent"])

\* handleAirdrop, up to `await connection.requestAirdrop`.
HandleAirdrop ==
    /\ panel = "airdrop" /\ ~SubmitDisabled
    /\ UNCHANGED <<unchangedByStep, cacheVars, retryVars>>
    /\ IF publicKey = ""
       THEN Rejected(<<Toast("error", "Please connect your wallet first", "")>>)
       ELSE Continue([Started(<<Toast("loading", "Requesting SOL airdrop...", "t")>>)
                        EXCEPT !.pc = "airdrop"])

\* createAssociatedTokenAccount of the list panel, up to getAccountInfo.
CreateAssociatedTokenAccount ==
    /\ panel = "listCreateATA" /\ ~SubmitDisabled
    /\ UNCHANGED <<unchangedByStep, cacheVars, retryVars>>
    /\ IF publicKey = "" \/ manualToken = NoToken
       THEN Rejected(<<>>)
       ELSE Continue([Started(<<Toast("loading", "Creating token account...", "create-ata")>>)
                        EXCEPT !.pc = "destCheck"])

\* mintTokens of the list panel, up to getAccountInfo.
MintTokens ==
    /\ panel = "listMint" /\ ~SubmitDisabled
    /\ UNCHANGED <<unchangedByStep, cacheVars, retryVars>>
    /\ IF publicKey = "" \/ manualToken = NoToken \/ amount = ""
       THEN Rejected(<<Toast("error", "Please enter an amount to mint", "")>>)
       ELSE LET r == Started(<<Toast("loading", "Minting tokens...", "mint-tokens")>>)
            IN IF manualToken.mintAuthority # publicKey
               THEN Return(r, <<Toast("dismiss", "", "mint-tokens"),
                                Toast("error", "You are not the mint authority for this token", "")>>,
                           "notAuthority")
               ELSE Continue([r EXCEPT !.pc = "destCheck"])

\* mutant: a lookup that needed a retry is treated as failed
LookupSucceededFirstTry(state, failures) == state = "returned" /\ failures = 0

\* try { mintInfo = await withRetry(...) } catch { ...; return }: the code
\* after the await runs exactly when withRetry returned.
LookupSucceeded(state, failures) == state = "returned"

\* `await withRetry(() => token.getMint(...))` has settled.
MintLookupDone ==
    /\ run.pc = "getMint" /\ rpc \in {"returned", "thrown"}
    /\ RetryDiscard
    /\ UNCHANGED <<panel, sibling, publicKey, formVars, lastSignature, manualToken,
                   prevSignature, cacheVars, pollVars, infoVars>>
    /\ LET r == [run EXCEPT !.lookup = [state |-> rpc, calls |-> calls,
                                        fails |-> fails]]
       IN
       IF LookupSucceeded(rpc, fails)
       THEN /\ decimals' = retResult.decimals
            /\ Continue([r EXCEPT
                  !.actualDecimals = retResult.decimals,
                  !.pc = IF panel = "send" THEN "sourceCheck" ELSE "destCheck"])
       ELSE /\ UNCHANGED decimals
            /\ Return(r,
                 <<Toast("error",
                         IF panel = "send"
                         THEN "Could not verify token mint. Please check the address."
                         ELSE "Could not verify mint. Please check the address and try again.",
                         IF panel = "mintStale" THEN "" ELSE "t")>>,
                 "readFailed")

\* send panel: `await getAccountInfo(sourceTokenAddress)` settles.
SourceCheck ==
    /\ run.pc = "sourceCheck"
    /\ UNCHANGED <<unchangedByStep, cacheVars, retryVars>>
    /\ LET r == [run EXCEPT !.netCalls = @ + 1]
       IN \/ \E e \in ThrownValues : Caught(r, e)
          \/ Return(r, <<Toast("error", "You don't have a token account for this token", "t")>>,
                    "noSourceAccount")
          \/ Continue([r EXCEPT !.pc = "destCheck"])

\* The decimals read from the mint in this submission (list panel: read by
\* the lookup that filled manualToken).
FetchedDecimals ==
    IF panel = "listMint" THEN manualToken.decimals ELSE run.actualDecimals

\* `await getAccountInfo(destination)` settles; the instructions are built.
DestCheck ==
    /\ run.pc = "destCheck"
    /\ UNCHANGED <<unchangedByStep, cacheVars, retryVars>>
    /\ \/ \E e \in ThrownValues : Caught([run EXCEPT !.netCalls = @ + 1], e)
       \/ \E exists \in BOOLEAN :
            LET r == [run EXCEPT !.destExisted = IF exists THEN "yes" ELSE "no",
                                 !.netCalls = @ + 1]
            IN IF panel = "listCreateATA"
               THEN IF exists
                    THEN Return(r, <<Toast("dismiss", "", "create-ata"),
                                     Toast("error", "Token account already exists", "")>>,
                                "alreadyExists")
                    ELSE Continue([r EXCEPT !.tx = <<CreateAta>>, !.pc = "send"])
               ELSE LET d == DecimalsUsed(panel, FetchedDecimals, run.heldDecimals)
                        c == Convert(panel, amount, d)
                    IN IF c.threw
                       THEN Caught([r EXCEPT !.converted = "threw", !.typed = amount,
                                             !.tx = IF exists THEN <<>> ELSE <<CreateAta>>],
                                   RangeError)
                       ELSE Continue([r EXCEPT
                              !.converted = "ok", !.typed = amount,
                              !.tx = BuildInstructions(exists,
                                        Instr(PrimaryOp(panel), c.raw, 0)),
                              !.pc = IF panel \in RetryPanels THEN "blockhash" ELSE "send"])

\* create panel: `await getMinimumBalanceForRentExemption` settles.
RentExemption ==
    /\ run.pc = "rent"
    /\ UNCHANGED <<unchangedByStep, cacheVars, retryVars>>
    /\ \/ \E e \in ThrownValues : Caught([run EXCEPT !.netCalls = @ + 1], e)
       \/ Continue([run EXCEPT !.tx = CreateTokenInstructions(run.heldDecimals),
                               !.netCalls = @ + 1,
                               !.pc = "blockhash"])

\* `await getLatestBlockhash()` settles; sendTransaction is called.
LatestBlockhash ==
    /\ run.pc = "blockhash"
    /\ UNCHANGED <<unchangedByStep, cacheVars, retryVars>>
    /\ \/ \E e \in ThrownValues : Caught([run EXCEPT !.netCalls = @ + 1], e)
       \/ \E bh \in 1..2 :
            Continue([run EXCEPT
               !.netCalls = @ + 1,
               !.blockhash = bh, !.recentBlockhash = bh,
               !.toasts = IF panel \in RetryPanels
                          THEN @ \o <<Toast("loading", "Sending transaction...", "t")>>
                          ELSE @,
               !.pc = "send"])

\* `await sendTransaction(transaction, connection)` settles: the wallet
\* signed and broadcast, or refused.
SendTransaction ==
    /\ run.pc = "send"
    /\ UNCHANGED <<panel, sibling, publicKey, formVars, decimals, manualToken,
                   cacheVars, pollVars, infoVars, retryVars>>
    /\ LET r == [run EXCEPT !.submits = @ + 1, !.sentTo = PanelEndpoint(panel)]
       IN \/ /\ \E e \in ThrownValues : Caught(r, e)
             /\ UNCHANGED <<lastSignature, prevSignature>>
          \/ LET sig == NewSignature(prevSignature)
             IN /\ prevSignature' = sig
                /\ lastSignature' = IF panel = "create" THEN sig ELSE lastSignature
                /\ Continue([r EXCEPT
                      !.signature = sig,
                      !.toasts = @ \o
                         (CASE panel \in RetryPanels ->
                                 <<Toast("loading", "Confirming transaction...", "t")>>
                            [] panel = "create" ->
                                 <<Toast("loading", "Creating token... This may take a minute",
                                         "creating-token")>>
                            [] OTHER -> <<>>),
                      !.pc = "confirm"])

\* airdrop panel: `await connection.requestAirdrop` settles.
RequestAirdrop ==
    /\ run.pc = "airdrop"
    /\ UNCHANGED <<panel, sibling, publicKey, formVars, decimals, lastSignature,
                   manualToken, cacheVars, pollVars, infoVars, retryVars>>
    /\ LET r == [run EXCEPT !.netCalls = @ + 1]
       IN \/ /\ \E e \in ThrownValues : Caught(r, e)
             /\ UNCHANGED prevSignature
          \/ LET sig == NewSignature(prevSignature)
             IN /\ prevSignature' = sig
                /\ Continue([r EXCEPT !.signature = sig, !.pc = "confirm"])

\* `${s.slice(0, 4)}...${s.slice(-4)}` for the recipient keys of the model,
\* which have four characters.
Slice4(s) == s \o "..." \o s

\* The notifications of the success path.
SuccessToasts(p) ==
    CASE p = "send" ->
           <<Toast("success", "Successfully sent " \o amount \o " tokens to "
                                \o Slice4(recipientAddress), "t")>>
      [] p \in {"mint", "mintStale"} ->
           <<Toast("success", "Successfully minted " \o amount \o " tokens", "t")>>
      [] p = "sendV1" ->
           <<Toast("success", "Successfully sent " \o amount \o " tokens to "
                                \o Slice4(recipientAddress), "")>>
      [] p = "mintV1" ->
           <<Toast("success", "Successfully minted " \o amount \o " tokens", "")>>
      [] p = "airdrop" ->
           <<Toast("success", "Successfully received 1 SOL", "t")>>
      [] p = "listCreateATA" ->
           <<Toast("dismiss", "", "create-ata"),
             Toast("success", "Token account created successfully!", "")>>
      [] p = "listMint" ->
           <<Toast("dismiss", "", "mint-tokens"),
             Toast("success", "Successfully minted " \o amount \o " tokens", "")>>
      [] OTHER ->  \* create
           <<Toast("dismiss", "", "creating-token"),
             Toast("success", "Token created successfully!", "")>>

\* The endpoints fetchSpecificToken tries, in order.
LookupEndpoints ==
    <<"https://api.mainnet-beta.solana.com",
      "https://solana-mainnet.g.alchemy.com/v2/demo",
      "https://api.devnet.solana.com",
      "https://devnet.genesysgo.net">>

\* Which of the endpoints would answer a getMint request for the address.
EndpointAnswers == [1 .. Len(LookupEndpoints) -> BOOLEAN]

\* for (const endpoint of endpoints) { try { mintInfo = await getMint(...);
\* if (mintInfo) { ...; return; } } catch { log } }: `found` is the
\* foundEndpoint (0: none), `queried` the endpoints sent a request, in order.
RECURSIVE ScanEndpointsAll(_, _, _)
ScanEndpointsAll(answers, i, queried) ==
    IF i > Len(answers)
    THEN [answers |-> answers, found |-> 0, queried |-> queried]
    ELSE LET rest == ScanEndpointsAll(answers, i + 1, Append(queried, i))
         IN IF answers[i] /\ rest.found = 0
            THEN [rest EXCEPT !.found = i]
            ELSE rest

RECURSIVE ScanEndpoints(_, _, _)
ScanEndpoints(answers, i, queried) ==
    IF i > Len(answers)
    THEN [answers |-> answers, found |-> 0, queried |-> queried]
    ELSE IF answers[i]
    THEN [answers |-> answers, found |-> i, queried |-> Append(queried, i)]
    ELSE ScanEndpoints(answers, i + 1, Append(queried, i))

\* What fetchSpecificToken may end with for a non-empty address: the token
\* read from the first endpoint that answers, or nothing after every
\* endpoint failed. A malformed address throws at `new web3.PublicKey`
\* before any request, at every endpoint.
LookupOutcomes(addr) ==
    IF ~IsPublicKey(addr)
    THEN {[token |-> NoToken, requests |-> 0, scan |-> NoScan]}
    ELSE {[token |-> IF sc.found = 0 THEN NoToken
                     ELSE [mint |-> addr, decimals |-> MintDecimals(addr),
                           mintAuthority |-> a],
           requests |-> Len(sc.queried),
           scan |-> sc] :
             sc \in {ScanEndpoints(ans, 1, <<>>) : ans \in EndpointAnswers},
             a \in Wallets \cup {"other"}}

\* The confirmation resolved without error: success notification, form
\* reset, finally block. The create panel calls toast.info before its
\* reset; if the library does not define it the call throws into the
\* catch block.
Confirmed(r) ==
    \/ /\ run' = [r EXCEPT !.pc = "idle", !.outcome = "success",
                           !.toasts = @ \o SuccessToasts(panel) \o
                              (IF panel = "create"
                               THEN <<Toast("info", "To see your token in Phantom", "")>>
                               ELSE <<>>)]
       /\ isLoading' = LoadingAfter("success")
       /\ amount' = IF panel \in AmountPanels THEN "" ELSE amount
       /\ recipientAddress' = IF panel \in SendPanels THEN "" ELSE recipientAddress
       /\ tokenName' = IF panel = "create" THEN "" ELSE tokenName
       /\ tokenSymbol' = IF panel = "create" THEN "" ELSE tokenSymbol
       /\ decimals' = IF panel = "create" THEN DefaultDecimals ELSE decimals
       /\ UNCHANGED mintAddress
       \* the list panel's mint action starts fetchSpecificToken() again
       /\ IF panel = "listMint" /\ mintAddress # ""
          THEN \E o \in LookupOutcomes(mintAddress) : manualToken' = o.token
          ELSE UNCHANGED manualToken
    \/ /\ panel = "create"
       /\ Caught([r EXCEPT !.toasts = @ \o SuccessToasts(panel)], TypeErrorNoInfo)
       /\ UNCHANGED <<formVars, decimals, manualToken>>

\* mutant: a failed confirmation sends the transaction again
ConfirmFailedResubmits(r, e) ==
    /\ run' = [r EXCEPT !.pc = "send"]
    /\ UNCHANGED isLoading

\* The confirmation threw (timeout, expired blockhash, RPC error): the
\* error goes to the catch block.
ConfirmFailed(r, e) == Caught(r, e)

\* `await confirmTransaction(...)` settles.
ConfirmTransaction ==
    /\ run.pc = "confirm"
    /\ UNCHANGED <<panel, sibling, publicKey, lastSignature, prevSignature,
                   cacheVars, pollVars, infoVars, retryVars>>
    /\ LET r == [run EXCEPT
                   !.netCalls = @ + 1,
                   !.confirmedAt = PanelEndpoint(panel),
                   !.confirmArgs =
                       [signature |-> run.signature,
                        blockhash |-> IF panel \in RetryPanels
                                      THEN run.blockhash ELSE 0]]
       IN \/ /\ \E e \in ThrownValues : ConfirmFailed(r, e)
             /\ UNCHANGED <<formVars, decimals, manualToken>>
          \/ /\ panel = "create"   \* confirmation.value.err is set
             /\ Caught(r, ConfirmedButFailed)
             /\ UNCHANGED <<formVars, decimals, manualToken>>
          \/ Confirmed(r)

\* --------------------------------------------------- panel: input events

\* The record of the previous activation is dropped at the next input event.
Forget == run' = FreshRun

SetMintAddress ==
    /\ run.pc = "idle"
    /\ panel \in MintPanels \cup SendPanels \cup ListPanels
    /\ \E v \in MintAddresses : mintAddress' = v
    /\ UNCHANGED <<panel, sibling, publicKey, recipientAddress, amount, tokenName,
                   tokenSymbol, decimals, isLoading, lastSignature, manualToken,
                   prevSignature, cacheVars, pollVars, infoVars, retryVars>>
    /\ Forget

SetRecipientAddress ==
    /\ run.pc = "idle"
    /\ panel \in SendPanels
    /\ \E v \in RecipientAddresses : recipientAddress' = v
    /\ UNCHANGED <<panel, sibling, publicKey, mintAddress, amount, tokenName,
                   tokenSymbol, decimals, isLoading, lastSignature, manualToken,
                   prevSignature, cacheVars, pollVars, infoVars, retryVars>>
    /\ Forget

SetAmount ==
    /\ run.pc = "idle"
    /\ panel \in AmountPanels
    /\ \E v \in {""} \cup Amounts : amount' = v
    /\ UNCHANGED <<panel, sibling, publicKey, mintAddress, recipientAddress, tokenName,
                   tokenSymbol, decimals, isLoading, lastSignature, manualToken,
                   prevSignature, cacheVars, pollVars, infoVars, retryVars>>
    /\ Forget

SetTokenName ==
    /\ run.pc = "idle"
    /\ panel = "create"
    /\ \E v \in {"", "My Token"} : tokenName' = v
    /\ UNCHANGED <<panel, sibling, publicKey, mintAddress, recipientAddress, amount,
                   tokenSymbol, decimals, isLoading, lastSignature, manualToken,
                   prevSignature, cacheVars, pollVars, infoVars, retryVars>>
    /\ Forget

SetTokenSymbol ==
    /\ run.pc = "idle"
    /\ panel = "create"
    /\ \E v \in {"", "MTK"} : tokenSymbol' = v
    /\ UNCHANGED <<panel, sibling, publicKey, mintAddress, recipientAddress, amount,
                   tokenName, decimals, isLoading, lastSignature, manualToken,
                   prevSignature, cacheVars, pollVars, infoVars, retryVars>>
    /\ Forget

\* Characters of the strings typed into the decimals field.
IsDigit(c) == c \in {"0", "1", "2", "3", "4", "5", "6", "7", "8", "9"}
DigitValue(c) ==
    CASE c = "0" -> 0 [] c = "1" -> 1 [] c = "2" -> 2 [] c = "3" -> 3
      [] c = "4" -> 4 [] c = "5" -> 5 [] c = "6" -> 6 [] c = "7" -> 7
      [] c = "8" -> 8 [] OTHER -> 9

\* The value of the longest prefix of digits of s, starting from acc.
RECURSIVE DigitsValue(_, _)
DigitsValue(s, acc) ==
    IF s = <<>> \/ ~IsDigit(Head(s)) THEN acc
    ELSE DigitsValue(Tail(s), 10 * acc + DigitValue(Head(s)))

\* parseInt(s): an optional sign, then the longest prefix of digits; NaN
\* when there is no digit.
ParseInt(s) ==
    LET neg  == s # <<>> /\ Head(s) = "-"
        body == IF s # <<>> /\ Head(s) \in {"-", "+"} THEN Tail(s) ELSE s
    IN IF body = <<>> \/ ~IsDigit(Head(body))
       THEN [nan |-> TRUE, val |-> 0]
       ELSE [nan |-> FALSE,
             val |-> IF neg THEN 0 - DigitsValue(body, 0) ELSE DigitsValue(body, 0)]

DecimalsChars == {"-", "1", "9", ".", "a"}
DecimalsInputs ==
    UNION {[1..n -> DecimalsChars] : n \in 0..MaxDecimalsInputLen}

\* The same test without its upper limit.
DecimalsAcceptedNoUpper(parsed) == ~parsed.nan /\ parsed.val >= 0
\* `!isNaN(parsed) && parsed >= 0 && parsed <= 9` of handleDecimalsChange.
DecimalsAccepted(parsed) == ~parsed.nan /\ parsed.val >= 0 /\ parsed.val <= 9

\* handleDecimalsChange of the create panel.
HandleDecimalsChange ==
    /\ run.pc = "idle"
    /\ panel = "create"
    /\ \E value \in DecimalsInputs :
         IF value = <<>>
         THEN decimals' = 0
         ELSE LET parsed == ParseInt(value)
              IN IF DecimalsAccepted(parsed)
                 THEN decimals' = parsed.val
                 ELSE UNCHANGED decimals
    /\ UNCHANGED <<panel, sibling, publicKey, formVars, isLoading, lastSignature,
                   manualToken, prevSignature, cacheVars, pollVars, infoVars, retryVars>>
    /\ Forget

\* fetchSpecificToken of the list panel, run with the mint address `addr`
\* and the wallet `key` of the render it was created in: the endpoints are
\* tried in order; the first that answers fills manualToken (and, with a
\* wallet, the user's token account is looked up there); none answering
\* clears manualToken.
LookupToken(addr, key, auto) ==
    IF addr = ""
    THEN /\ run' = [FreshRun EXCEPT
                      !.startKey = key, !.outcome = "lookupRejected",
                      !.auto = auto,
                      !.startForm = [Form EXCEPT !.mintAddress = addr],
                      !.toasts = <<Toast("error", "Please enter a mint address", "")>>]
         /\ UNCHANGED manualToken
    ELSE \E o \in LookupOutcomes(addr) :
           LET found == o.token # NoToken
           IN /\ manualToken' = o.token
              /\ run' = [FreshRun EXCEPT
                    !.startKey = key,
                    !.auto = auto,
                    !.startForm = [Form EXCEPT !.mintAddress = addr],
                    !.scan = o.scan,
                    !.netCalls = o.requests + (IF found /\ key # "" THEN 1 ELSE 0),
                    !.outcome = IF found THEN "lookupFound" ELSE "lookupNotFound",
                    !.toasts = <<Toast("loading", "Fetching token info...", "fetch-token"),
                                 Toast("dismiss", "", "fetch-token"),
                                 IF found THEN Toast("success", "Token found!", "")
                                 ELSE Toast("error", "Token not found on any network", "")>>]

\* The "Fetch Token" button.
FetchSpecificToken ==
    /\ run.pc = "idle"
    /\ panel \in ListPanels
    /\ LookupToken(mintAddress, publicKey, FALSE)
    /\ UNCHANGED <<panel, sibling, publicKey, formVars, decimals, isLoading,
                   lastSignature, prevSignature, cacheVars, pollVars, infoVars, retryVars>>

\* The wallet adapter connects or disconnects: publicKey changes. The list
\* panel's effect on publicKey fills in the preset mint address and, with a
\* wallet, starts fetchSpecificToken as the render before the change made it.
\* The panel's polling effect is followed on its own, from IdentityChange on.
WalletChange ==
    /\ run.pc = "idle"
    /\ \E k \in ({""} \cup Wallets) \ {publicKey} :
         /\ publicKey' = k
         /\ IF panel \in ListPanels
            THEN /\ mintAddress' = PresetMint
                 /\ IF k # ""
                    THEN LookupToken(mintAddress, k, TRUE)
                    ELSE Forget /\ UNCHANGED manualToken
            ELSE /\ Forget
                 /\ UNCHANGED <<mintAddress, manualToken>>
    /\ UNCHANGED <<panel, sibling, recipientAddress, amount, tokenName, tokenSymbol,
                   decimals, isLoading, lastSignature, prevSignature,
                   cacheVars, pollVars, infoVars, retryVars>>

\* The page shows the list panel once a wallet is connected: a new instance
\* whose first render holds useState('') for the mint address. Its effect
\* fills in the preset address and hands that render's fetchSpecificToken
\* to setTimeout, which runs it one second later.
ListMount ==
    /\ panel \in ListPanels
    /\ run.pc = "idle" /\ sibling = "idle"
    /\ publicKey # ""
    /\ mintAddress' = PresetMint
    /\ amount' = ""
    /\ manualToken' = NoToken
    /\ run' = [FreshRun EXCEPT
                 !.startKey = publicKey, !.outcome = "lookupRejected",
                 !.auto = TRUE,
                 !.startForm = [Form EXCEPT !.mintAddress = "", !.amount = ""],
                 !.toasts = <<Toast("error", "Please enter a mint address", "")>>]
    /\ UNCHANGED <<panel, sibling, publicKey, recipientAddress, tokenName,
                   tokenSymbol, decimals, isLoading, lastSignature,
                   prevSignature, cacheVars, pollVars, infoVars, retryVars>>

\* The list panel holds two actions with a loading flag each (creatingATA,
\* mintingTokens). `panel` says which one is followed step by step; the
\* other one is followed only from its start (past its guards, flag set) to
\* its finish (finally: flag cleared). Its button is disabled while it runs.
SiblingStart ==
    /\ panel \in ListPanels
    /\ sibling = "idle"
    /\ publicKey # "" /\ manualToken # NoToken
    /\ panel = "listCreateATA" =>  \* the other action is mintTokens
          (amount # "" /\ manualToken.mintAuthority = publicKey)
    /\ sibling' = "running"
    /\ UNCHANGED <<panel, publicKey, formVars, decimals, isLoading,
                   lastSignature, manualToken, prevSignature, run,
                   cacheVars, pollVars, infoVars, retryVars>>

\* The other action finishes: mintTokens, when it succeeded, clears the
\* amount and starts fetchSpecificToken(); createAssociatedTokenAccount
\* changes none of the panel's fields.
SiblingFinish ==
    /\ panel \in ListPanels
    /\ sibling = "running"
    /\ sibling' = "idle"
    /\ \/ UNCHANGED <<amount, manualToken>>
       \/ /\ panel = "listCreateATA"
          /\ amount' = ""
          /\ IF mintAddress # ""
             THEN \E o \in LookupOutcomes(mintAddress) : manualToken' = o.token
             ELSE UNCHANGED manualToken
    /\ UNCHANGED <<panel, publicKey, mintAddress, recipientAddress, tokenName,
                   tokenSymbol, decimals, isLoading, lastSignature,
                   prevSignature, run, cacheVars, pollVars, infoVars, retryVars>>

\* ------------------------------------------------- list panel: the polling
\* useEffect(() => { if (!publicKey) { setTokens([]); return; }
\*                   fetchTokens();
\*                   const intervalId = setInterval(fetchTokens, 60000);
\*                   return () => clearInterval(intervalId);
\*                 }, [publicKey, connection])
\* React runs the cleanup the previous run of the effect returned, then the
\* effect, after every commit in which a dependency changed; it runs the
\* cleanup alone when the component unmounts. A timer is [id, key, conn]:
\* its id and the publicKey and connection its fetchTokens closes over.

PollWallets == {"wallet", "wallet2"}
Connections == 1 .. 2

\* The endpoints fetchTokens tries, in order.
PollEndpoints(p) ==
    IF p = "listV1"
    THEN <<"https://api.devnet.solana.com",
           "https://devnet.genesysgo.net",
           "https://devnet.solana.com">>
    ELSE LookupEndpoints

\* clearInterval(intervalId)
ClearIntervalKeeps(ts, id) == ts
ClearInterval(ts, id) == {t \in ts : t.id # id}

NoFetching == [k \in PollWallets |-> 0]
FetchCount == fetching["wallet"] + fetching["wallet2"]

\* fetchTokens() of the render with publicKey `key` is called: a poll
\* starts with setIsLoading(true); setError(null).
StartPoll(via, key) ==
    /\ fetching' = [fetching EXCEPT ![key] = @ + 1]
    /\ listLoading' = TRUE
    /\ listError' = ""
    /\ lastPollVia' = via
    /\ strayPolls' = strayPolls + (IF mounted /\ publicKey # "" THEN 0 ELSE 1)
    /\ UNCHANGED <<tokens, lastPollEnd>>

\* After a commit: the cleanup first, when the previous run returned one.
AfterCommit(stillMounted) ==
    IF intervalId # 0 THEN "cleanup"
    ELSE IF stillMounted THEN "effect" ELSE "settled"

\* The wallet adapter hands the list panel another publicKey (or null).
IdentityChange ==
    /\ panel \in PollPanels
    /\ mounted /\ phase = "settled"
    /\ nextTimerId <= MaxTimerIds
    /\ \E k \in ({""} \cup PollWallets) \ {publicKey} : publicKey' = k
    /\ phase' = AfterCommit(TRUE)
    /\ UNCHANGED <<mounted, connection, timers, intervalId, nextTimerId,
                   fetching, listVars, lastPollVia, strayPolls>>
    /\ UNCHANGED <<panel, sibling, formVars, decimals, isLoading,
                   lastSignature, manualToken, prevSignature, run,
                   cacheVars, retryVars, infoVars>>

\* The connection provider hands the list panel another connection.
ConnectionChange ==
    /\ panel \in PollPanels
    /\ mounted /\ phase = "settled"
    /\ nextTimerId <= MaxTimerIds
    /\ \E c \in Connections \ {connection} : connection' = c
    /\ phase' = AfterCommit(TRUE)
    /\ UNCHANGED <<mounted, timers, intervalId, nextTimerId, fetching,
                   listVars, lastPollVia, strayPolls>>
    /\ UNCHANGED <<panelVars, cacheVars, retryVars, infoVars>>

\* The page removes the list panel.
Unmount ==
    /\ panel \in PollPanels
    /\ mounted /\ phase = "settled"
    /\ mounted' = FALSE
    /\ phase' = AfterCommit(FALSE)
    /\ UNCHANGED <<connection, timers, intervalId, nextTimerId, fetching,
                   listVars, lastPollVia, strayPolls>>
    /\ UNCHANGED <<panelVars, cacheVars, retryVars, infoVars>>

\* The page shows the list panel again: a new instance with its initial
\* state, its effect is due. The calls of the removed instance can no
\* longer set anything and are followed no further.
Mount ==
    /\ panel \in PollPanels
    /\ ~mounted /\ phase = "settled"
    /\ nextTimerId <= MaxTimerIds
    /\ mounted' = TRUE
    /\ phase' = "effect"
    /\ fetching' = NoFetching
    /\ tokens' = {}
    /\ listLoading' = FALSE
    /\ listError' = ""
    /\ lastPollEnd' = "none"
    /\ UNCHANGED <<connection, timers, intervalId, nextTimerId,
                   lastPollVia, strayPolls>>
    /\ UNCHANGED <<panelVars, cacheVars, retryVars, infoVars>>

\* () => clearInterval(intervalId)
RunCleanup ==
    /\ phase = "cleanup"
    /\ timers' = ClearInterval(timers, intervalId)
    /\ intervalId' = 0
    /\ phase' = (IF mounted THEN "effect" ELSE "settled")
    /\ UNCHANGED <<mounted, connection, nextTimerId, fetching, listVars,
                   lastPollVia, strayPolls>>
    /\ UNCHANGED <<panelVars, cacheVars, retryVars, infoVars>>

\* The body of the effect.
RunEffect ==
    /\ phase = "effect"
    /\ IF publicKey = ""
       THEN /\ tokens' = {}
            /\ UNCHANGED <<timers, intervalId, nextTimerId, fetching,
                           listLoading, listError, lastPollEnd,
                           lastPollVia, strayPolls>>
       ELSE /\ StartPoll("effect", publicKey)
            /\ timers' = timers \cup {[id |-> nextTimerId, key |-> publicKey,
                                       conn |-> connection]}
            /\ intervalId' = nextTimerId
            /\ nextTimerId' = nextTimerId + 1
    /\ phase' = "settled"
    /\ UNCHANGED <<mounted, connection>>
    /\ UNCHANGED <<panelVars, cacheVars, retryVars, infoVars>>

\* 60 seconds have passed on an active timer: it calls its fetchTokens. A
\* commit and its effects are followed as one update of the page, so no
\* timer callback runs between them.
Tick ==
    /\ phase = "settled"
    /\ FetchCount < MaxFetching
    /\ \E t \in timers : StartPoll("interval", t.key)
    /\ UNCHANGED <<mounted, connection, timers, intervalId, nextTimerId, phase>>
    /\ UNCHANGED <<panelVars, cacheVars, retryVars, infoVars>>

\* The rows read for `key` from the endpoints that answered.
Rows(key, answering) == {[owner |-> key, endpoint |-> i] : i \in answering}

\* The first version: the loop breaks at the first endpoint that answers
\* and its rows are set; if none answers the error is set.
EndFirstVersion(key, answering) ==
    IF answering # {}
    THEN /\ tokens' = Rows(key, {CHOOSE i \in answering :
                                    \A j \in answering : i <= j})
         /\ UNCHANGED listError
    ELSE /\ listError' = "Failed to load token accounts. Please try again later."
         /\ UNCHANGED tokens

\* The current version: the rows of every endpoint that answers are put
\* together and set, whatever their number; a failing endpoint is logged.
EndCurrent(key, answering) ==
    /\ tokens' = Rows(key, answering)
    /\ UNCHANGED listError

\* A fetchTokens call comes to its end (finally: setIsLoading(false)),
\* whether or not the panel still shows the wallet it was started for.
\* What it sets on a removed instance is lost.
FetchTokensDone ==
    /\ phase = "settled"
    /\ \E key \in PollWallets :
         /\ fetching[key] > 0
         /\ fetching' = [fetching EXCEPT ![key] = @ - 1]
         /\ IF mounted
            THEN \E answers \in [1 .. Len(PollEndpoints(panel)) -> BOOLEAN] :
                   LET answering == {i \in DOMAIN answers : answers[i]}
                   IN /\ IF panel = "listV1"
                         THEN EndFirstVersion(key, answering)
                         ELSE EndCurrent(key, answering)
                      /\ lastPollEnd' = (IF answering = {} THEN "allFailed"
                                         ELSE "answered")
                      /\ listLoading' = FALSE
            ELSE UNCHANGED listVars
    /\ UNCHANGED <<mounted, connection, timers, intervalId, nextTimerId,
                   lastPollVia, strayPolls, phase>>
    /\ UNCHANGED <<panelVars, cacheVars, retryVars, infoVars>>

\* Mounted without a wallet: the effect has run and has set no timer.
InitPoll ==
    /\ mounted = TRUE
    /\ connection = 1
    /\ timers = {}
    /\ intervalId = 0
    /\ nextTimerId = 1
    /\ fetching = NoFetching
    /\ tokens = {}
    /\ listLoading = FALSE
    /\ listError = ""
    /\ lastPollEnd = "none"
    /\ lastPollVia = "none"
    /\ strayPolls = 0
    /\ phase = "settled"

\* ------------------------------------------- wallet info panel: the balance
\* useEffect(() => { ...; if (!publicKey) { setBalance(null); return; }
\*                   const fetchBalance = async () => { ... };
\*                   fetchBalance();
\*                   const intervalId = setInterval(fetchBalance, 30000);
\*                   return () => clearInterval(intervalId);
\*                 }, [publicKey, connection, balance, isLoading, lastFetchTime])
\* The effect runs again after every render in which one of these changed.
\* The panel holds the airdrop button, so it is the panel "airdrop".

\* fetchBalance of a render with these values gets past its two early
\* returns: `now - lastFetchTime < 3000 && balance !== null` and `isLoading`.
FetchBalanceStarts(bal, loading, lft) ==
    /\ ~(clock - lft < ThrottleUnits /\ bal # "")
    /\ ~loading

\* The state changed to (key, bal, loading, lft) with the fetch `inflight`:
\* the cleanup clears the timer and the effect runs. Without a wallet it
\* sets the balance to null. With one it calls fetchBalance, which, if it
\* starts, sets isLoading (the effect runs once more, its fetchBalance
\* returns at `isLoading`), and it sets the timer anew.
RunBalanceEffect(key, bal, loading, lft, inflight, failedAt, restarted) ==
    LET starts == key # "" /\ FetchBalanceStarts(bal, loading, lft)
    IN /\ balance' = (IF key = "" THEN "" ELSE bal)
       /\ infoLoading' = (loading \/ starts)
       /\ lastFetchTime' = lft
       /\ timerSetAt' = (IF key = "" THEN -1 ELSE clock)
       /\ fetchStartedAt' = (IF starts THEN clock ELSE inflight)
       /\ lastFailedAt' = failedAt
       /\ restartedAt' = (IF starts /\ failedAt # -1 /\ restarted = -1
                          THEN clock ELSE restarted)

\* The wallet connects, disconnects or changes.
InfoWalletChange ==
    /\ panel = "airdrop"
    /\ \E k \in ({""} \cup PollWallets) \ {publicKey} :
         /\ publicKey' = k
         /\ RunBalanceEffect(k, balance, infoLoading, lastFetchTime,
                             fetchStartedAt, -1, -1)
    /\ UNCHANGED clock
    /\ UNCHANGED <<panel, sibling, formVars, decimals, isLoading,
                   lastSignature, manualToken, prevSignature, run,
                   cacheVars, retryVars, pollVars>>

\* `await directConnection.getBalance(publicKey)` resolves: setBalance,
\* setLastFetchTime(now), finally setIsLoading(false).
InfoFetchSucceeds ==
    /\ fetchStartedAt # -1
    /\ RunBalanceEffect(publicKey, "known", FALSE, fetchStartedAt, -1,
                        lastFailedAt, restartedAt)
    /\ UNCHANGED clock
    /\ UNCHANGED <<panelVars, cacheVars, retryVars, pollVars>>

\* It rejects: catch (a toast if balance === null), finally
\* setIsLoading(false).
InfoFetchFails ==
    /\ fetchStartedAt # -1
    /\ IF balance = ""
       THEN RunBalanceEffect(publicKey, balance, FALSE, lastFetchTime, -1,
                             clock, -1)
       ELSE RunBalanceEffect(publicKey, balance, FALSE, lastFetchTime, -1,
                             lastFailedAt, restartedAt)
    /\ UNCHANGED clock
    /\ UNCHANGED <<panelVars, cacheVars, retryVars, pollVars>>

\* The 30 s interval fires: fetchBalance of the latest render is called.
\* If it starts a fetch the effect runs again and sets the timer anew.
InfoTick ==
    /\ timerSetAt # -1
    /\ clock - timerSetAt >= IntervalUnits
    /\ RunBalanceEffect(publicKey, balance, infoLoading, lastFetchTime,
                        fetchStartedAt, lastFailedAt, restartedAt)
    /\ UNCHANGED clock
    /\ UNCHANGED <<panelVars, cacheVars, retryVars, pollVars>>

\* 3000 ms pass.
InfoTimePasses ==
    /\ panel = "airdrop"
    /\ clock < MaxClock
    /\ clock' = clock + 1
    /\ UNCHANGED <<balance, infoLoading, lastFetchTime, timerSetAt,
                   fetchStartedAt, lastFailedAt, restartedAt>>
    /\ UNCHANGED <<panelVars, cacheVars, retryVars, pollVars>>

\* Mounted without a wallet; Date.now() is far from 0.
InitInfo ==
    /\ balance = ""
    /\ infoLoading = FALSE
    /\ lastFetchTime = 0
    /\ clock = ThrottleUnits
    /\ timerSetAt = -1
    /\ fetchStartedAt = -1
    /\ lastFailedAt = -1
    /\ restartedAt = -1

InitPanel ==
    /\ panel \in Panels
    /\ sibling = "idle"
    /\ publicKey = ""
    /\ mintAddress = (IF panel \in ListPanels THEN PresetMint ELSE "")
    /\ recipientAddress = ""
    /\ amount = ""
    /\ tokenName = ""
    /\ tokenSymbol = ""
    /\ decimals = DefaultDecimals
    /\ isLoading = FALSE
    /\ lastSignature = ""
    /\ manualToken = NoToken
    /\ prevSignature = ""
    /\ run = FreshRun

\* ------------------------------------------------------------ specifications

Init == InitCache /\ InitRetry /\ InitPanel /\ InitPoll /\ InitInfo

\* withRetry called on its own, with any maxRetries and any operation.
RetryNext == StandaloneWithRetry \/ RetryCall \/ RetrySleep
RetrySpec == Init /\ [][RetryNext]_vars

\* getReliableConnection called with any endpoints.
CacheNext == CallGetReliableConnection
CacheSpec == Init /\ [][CacheNext]_vars

\* The steps a running handler takes as its awaited calls settle.
HandlerStep ==
    \/ RetryCall
    \/ RetrySleep
    \/ MintLookupDone
    \/ SourceCheck
    \/ DestCheck
    \/ RentExemption
    \/ LatestBlockhash
    \/ SendTransaction
    \/ RequestAirdrop
    \/ ConfirmTransaction

\* The events of the page: input, wallet, submit, lookup.
UserEvent ==
    \/ SetMintAddress
    \/ SetRecipientAddress
    \/ SetAmount
    \/ SetTokenName
    \/ SetTokenSymbol
    \/ HandleDecimalsChange
    \/ WalletChange
    \/ ListMount
    \/ FetchSpecificToken
    \/ HandleSendToken
    \/ HandleMintToken
    \/ HandleFirstVersion
    \/ HandleCreateToken
    \/ HandleAirdrop
    \/ CreateAssociatedTokenAccount
    \/ MintTokens
    \/ SiblingStart

\* One mounted panel.
Next == UserEvent \/ HandlerStep \/ SiblingFinish
Spec == Init /\ [][Next]_vars

\* Every awaited call eventually resolves or rejects.
FairSpec == Spec /\ WF_vars(HandlerStep) /\ WF_vars(SiblingFinish)

\* The list panel's polling effect, its timers and its polls.
PollNext ==
    \/ IdentityChange
    \/ ConnectionChange
    \/ Unmount
    \/ Mount
    \/ RunCleanup
    \/ RunEffect
    \/ Tick
    \/ FetchTokensDone
PollSpec == Init /\ [][PollNext]_vars

\* The wallet info panel's balance effect.
BalanceNext ==
    \/ InfoWalletChange
    \/ InfoFetchSucceeds
    \/ InfoFetchFails
    \/ InfoTick
    \/ InfoTimePasses
BalanceSpec == Init /\ [][BalanceNext]_vars

\* ------------------------------------------------------------------ claims

\* C1: when fn fails k <= maxRetries times and then succeeds, withRetry
\* returns that success value, has slept exactly k times (once after each
\* failure) and has invoked fn exactly k+1 times; this stays true in every
\* later state, so fn is never invoked again after the success.
C1_ReturnsAfterKFailures ==
    (rpc = "returned" /\ maxRetries >= 0) =>
        /\ fails <= maxRetries
        /\ calls = fails + 1
        /\ sleeps = fails
        /\ retResult = lastResolved

C1_Witness ==
    /\ rpc = "returned"
    /\ maxRetries = MaxRetriesBound
    /\ fails = maxRetries
    /\ sleeps = maxRetries

\* C2: when fn fails on every invocation it is invoked exactly maxRetries+1
\* times, withRetry sleeps maxRetries times (none after the final failure)
\* and the error raised carries the message of the last invocation's error.
C2_ExhaustedRaisesLast ==
    (rpc = "thrown" /\ maxRetries >= 0) =>
        /\ calls = maxRetries + 1
        /\ fails = calls
        /\ sleeps = maxRetries
        /\ retResult.kind = "Error"
        /\ retResult.msg =
             (IF lastThrown.kind = "Error" THEN lastThrown.msg
              ELSE JsString(lastThrown))

C2_Witness ==
    /\ rpc = "thrown"
    /\ maxRetries = MaxRetriesBound
    /\ calls = maxRetries + 1
    /\ retResult.msg = "403"

\* C3 (as stated): whatever the final attempt threw is the very value raised.
C3_RaisedUnchanged ==
    (rpc = "thrown" /\ maxRetries >= 0) => retResult = lastThrown

\* C3 (amended): an Error instance thrown by the final attempt is raised
\* itself, unchanged; any other thrown value is replaced by a new Error,
\* created by withRetry, whose message is String(value).
C3_RaisedErrorOrWrapped ==
    (rpc = "thrown" /\ maxRetries >= 0) =>
        IF lastThrown.kind = "Error"
        THEN retResult = lastThrown
        ELSE retResult = [kind |-> "Error", origin |-> "withRetry",
                          msg |-> JsString(lastThrown)]

C3_Witness ==
    /\ rpc = "thrown"
    /\ maxRetries >= 1
    /\ lastThrown.kind = "string"
    /\ retResult.origin = "withRetry"

\* C4: two calls of getReliableConnection with the same endpoint return the
\* same handle; at most one Connection is ever constructed per endpoint; a
\* stored entry is never replaced or removed.
C4_Memoized ==
    /\ \A p, q \in returnedLog : p[1] = q[1] => p[2] = q[2]
    /\ \A e \in Endpoints : constructed[e] <= 1
    /\ \A p \in returnedLog :
          p[2].kind = "Connection" =>
              /\ p[1] \in DOMAIN connectionCache
              /\ connectionCache[p[1]] = p[2]

C4_Witness ==
    /\ lastCall.outcome = "hit"
    /\ lastCall.endpoint \in ValidEndpoints
    /\ Cardinality(DOMAIN connectionCache) >= 2

\* The raw amount floor(a * 10^d) of an amount string of whole-token units.
\* (a is NumberHalves / 2, so for d >= 1 the product is NumberHalves * 5 * 10^(d-1).)
FloorRaw(amountString, d) ==
    IF d = 0 THEN NumberHalves(amountString) \div 2
    ELSE NumberHalves(amountString) * 5 * (10 ^ (d - 1))

\* The last instruction of the transaction built by the activation.
LastInstruction == run.tx[Len(run.tx)]

CountOp(tx, op) == Cardinality({i \in 1..Len(tx) : tx[i].op = op})

\* C5 (as stated): a submit action invoked while the wallet identity is null
\* is rejected with the 'connect wallet first' error notification, issues no
\* network call and no wallet submission, in every panel.
C5_DisconnectedRejected ==
    (run.outcome = "rejected" /\ run.startKey = "") =>
        /\ run.toasts = <<Toast("error", "Please connect your wallet first", "")>>
        /\ run.netCalls = 0
        /\ run.submits = 0

\* C6: in the send, mint and list-mint paths, once the instructions are
\* built: if the destination account did not exist when checked, the
\* sequence holds exactly one create-associated-account instruction and it
\* precedes the transfer/mint-to instruction; if it existed, the sequence
\* holds no create instruction; in both cases exactly one primary instruction.
C6_CreateBeforePrimary ==
    (panel \in AmountPanels /\ run.converted = "ok") =>
        /\ run.destExisted \in {"yes", "no"}
        /\ CountOp(run.tx, PrimaryOp(panel)) = 1
        /\ LastInstruction.op = PrimaryOp(panel)
        /\ IF run.destExisted = "no"
           THEN /\ CountOp(run.tx, CreateAta.op) = 1
                /\ Len(run.tx) = 2
                /\ run.tx[1] = CreateAta
           ELSE /\ CountOp(run.tx, CreateAta.op) = 0
                /\ Len(run.tx) = 1

C6_Witness ==
    /\ panel = "listMint"
    /\ run.pc = "send"
    /\ run.destExisted = "no"
    /\ run.tx[1] = CreateAta
    /\ run.tx[2].op = "mintTo"

\* C7 (as stated): in the send panel, the mint panel and the list panel's
\* mint action, whenever the amount is converted the conversion succeeds and
\* the raw amount in the transfer or mint-to instruction is floor(a * 10^d),
\* d being the decimals the conversion works with.
C7_RawIsFloor ==
    (panel \in {"send", "mint", "listMint"} /\ run.converted # "no") =>
        /\ run.converted = "ok"
        /\ LastInstruction.amount =
             FloorRaw(run.typed, DecimalsUsed(panel, FetchedDecimals, run.heldDecimals))

\* C8 (as stated): in every send and mint submission the raw amount is
\* computed with the decimals of the mint read during that submission, the
\* first submission after mounting included.
C8_UsesDecimalsOfMint ==
    (panel \in MintPanels \cup SendPanels /\ run.converted = "ok") =>
        LastInstruction.amount = FloorRaw(run.typed, MintDecimals(mintAddress))

\* C9: within one activation of a submit handler the wallet's
\* sendTransaction is called at most once; after a confirmation error the
\* handler has finished with exactly one submission (none in the airdrop
\* panel, which submits nothing through the wallet); and no submission
\* happens while a withRetry activation is running.
C9_AtMostOneSubmit ==
    /\ run.submits <= 1
    /\ run.failedAt = "confirm" =>
          /\ run.pc = "idle"
          /\ run.submits = (IF panel = "airdrop" THEN 0 ELSE 1)
    /\ rpc # "off" => run.submits = 0

C9_Witness ==
    /\ run.failedAt = "confirm"
    /\ run.caught.msg = "timeout"
    /\ run.submits = 1
    /\ run.pc = "idle"

\* C10: whenever no handler is running the loading flag is false (so a
\* finished handler, whatever its outcome, has cleared it), and, every
\* awaited call eventually settling, a loading flag that is true always
\* becomes false again.
C10_ReturnsToIdle ==
    /\ [](run.pc = "idle" => ~isLoading)
    /\ (isLoading ~> ~isLoading)

C10_Witness ==
    /\ run.pc = "idle"
    /\ run.outcome = "readFailed"
    /\ run.submits = 0
    /\ ~isLoading

\* The run on record is one of fetchSpecificToken.
IsLookup == run.outcome \in {"lookupRejected", "lookupFound", "lookupNotFound"}

\* A required field of the panel's form was empty when the handler started.
EmptyRequired ==
    LET f == run.startForm
    IN CASE IsLookup            -> f.mintAddress = ""
         [] panel \in SendPanels -> f.mintAddress = "" \/ f.recipientAddress = ""
                                       \/ f.amount = ""
         [] panel \in MintPanels -> f.mintAddress = "" \/ f.amount = ""
         [] panel = "create"     -> f.tokenName = "" \/ f.tokenSymbol = ""
         [] panel = "listMint"   -> f.amount = ""
         [] OTHER                -> FALSE

\* An address typed into the panel's form was not a well-formed key.
MalformedAddress ==
    LET f == run.startForm
    IN \/ (IsLookup \/ panel \in SendPanels \cup MintPanels) /\ f.mintAddress = "bad"
       \/ panel \in SendPanels /\ f.recipientAddress = "bad"

HasErrorToast == \E i \in 1..Len(run.toasts) : run.toasts[i].type = "error"

\* C11: a handler invoked (with a wallet, for the submit handlers) on a form
\* with an empty required field or a malformed mint/recipient address ends
\* at once, idle, with an error notification, no RPC request and no wallet
\* submission; no handler is ever in progress on such a form.
C11_LocalValidation ==
    /\ (run.outcome # "none" /\ (IsLookup \/ run.startKey # "")
          /\ (EmptyRequired \/ MalformedAddress)) =>
          /\ run.pc = "idle"
          /\ ~isLoading
          /\ HasErrorToast
          /\ run.netCalls = 0
          /\ run.submits = 0
    /\ run.pc # "idle" => ~(EmptyRequired \/ MalformedAddress)

C11_Witness ==
    /\ panel = "send"
    /\ run.outcome = "invalidAddress"
    /\ run.startForm.recipientAddress = "bad"
    /\ run.startForm.mintAddress # "bad"
    /\ HasErrorToast

\* C12 (as stated): in every panel that submits a transaction, the
\* confirmation wait is given the signature together with the blockhash (and
\* the last valid block height fetched with it; one number stands for the
\* pair) that was fetched before the submission and set as the transaction's
\* recent blockhash; 0 in confirmArgs means that none was given.
C12_ConfirmAnchored ==
    (panel # "airdrop" /\ run.confirmArgs.signature # "") =>
        /\ run.confirmArgs.signature = run.signature
        /\ run.confirmArgs.blockhash # 0
        /\ run.confirmArgs.blockhash = run.recentBlockhash

\* The 'could not verify' notification is among the activation's.
HasCouldNotVerify ==
    \E i \in 1..Len(run.toasts) :
        run.toasts[i].text \in
            {"Could not verify token mint. Please check the address.",
             "Could not verify mint. Please check the address and try again."}

HasSuccessToast == \E i \in 1..Len(run.toasts) : run.toasts[i].type = "success"

\* C13: when the mint lookup of a send or mint submission failed twice and
\* succeeded on its third attempt, the submission goes on with the decimals
\* read from the mint, never shows 'could not verify', and, if no later step
\* fails or ends it, finishes with one wallet submission and a success
\* notification.
C13_LookupRecovers ==
    (panel \in RetryPanels /\ run.lookup.state = "returned"
       /\ run.lookup.fails = 2) =>
        /\ run.lookup.calls = 3
        /\ run.actualDecimals = MintDecimals(run.startForm.mintAddress)
        /\ ~HasCouldNotVerify
        /\ run.outcome # "readFailed"
        /\ (run.pc = "idle" /\ run.failedAt = "" /\ run.outcome # "noSourceAccount") =>
              /\ run.outcome = "success"
              /\ run.submits = 1
              /\ HasSuccessToast
              /\ ~HasErrorToast

C13_Witness ==
    /\ panel = "send"
    /\ run.lookup = [state |-> "returned", calls |-> 3, fails |-> 2]
    /\ run.outcome = "success"
    /\ HasSuccessToast

\* C14: when the mint lookup of a send or mint submission failed on all
\* maxRetries + 1 = 4 attempts, the activation is over: idle, loading flag
\* false, a 'could not verify' error notification, no instruction built, no
\* wallet submission; and a lookup never ends in failure after fewer attempts.
C14_LookupExhausted ==
    (panel \in RetryPanels /\ run.lookup.state = "thrown") =>
        /\ run.lookup.calls = DefaultMaxRetries + 1
        /\ run.lookup.fails = DefaultMaxRetries + 1
        /\ run.pc = "idle"
        /\ ~isLoading
        /\ run.outcome = "readFailed"
        /\ HasCouldNotVerify
        /\ run.tx = <<>>
        /\ run.submits = 0

C14_Witness ==
    /\ panel = "mint"
    /\ run.lookup.state = "thrown"
    /\ run.lookup.calls = 4
    /\ HasCouldNotVerify
    /\ run.pc = "idle"

\* The positions at which a handler awaits a chain read other than getMint.
ReadSteps == {"sourceCheck", "destCheck", "blockhash", "rent"}

\* The activation ended because a chain read failed.
EndedByReadFailure ==
    /\ run.pc = "idle"
    /\ \/ run.outcome = "readFailed"
       \/ run.failedAt \in ReadSteps /\ run.caught \in ThrownValues

\* The number of chain read calls that failed during the activation: the
\* failed getMint attempts, and the read whose error reached the catch block.
ReadFailures ==
    run.lookup.fails +
      (IF run.failedAt \in ReadSteps /\ run.caught \in ThrownValues THEN 1 ELSE 0)

\* C15 (as stated): every chain read of a submission goes through withRetry,
\* so an activation that a failing read ended has seen more than one failed
\* read call.
C15_ReadsRetried ==
    (panel \in {"send", "mint", "create"} /\ EndedByReadFailure) => ReadFailures > 1

\* The confirmation of the activation's transaction resolved without error
\* (the create panel may still have ended in its catch block afterwards).
ConfirmedOk == run.outcome = "success" \/ run.caught = TypeErrorNoInfo

\* The panel's mutable input fields hold their initial values again.
FieldsReset ==
    /\ panel \in AmountPanels => amount = ""
    /\ panel \in SendPanels => recipientAddress = ""
    /\ panel = "create" =>
          (tokenName = "" /\ tokenSymbol = "" /\ decimals = DefaultDecimals)

\* C16 (as stated): in every form panel a submission whose confirmation
\* succeeded has reset the panel's mutable input fields and ended with a
\* success notification and no error notification.
C16_SuccessSettles ==
    ConfirmedOk =>
        /\ run.pc = "idle"
        /\ ~isLoading
        /\ FieldsReset
        /\ HasSuccessToast
        /\ ~HasErrorToast

\* The category of an error message, by substring.
Category(msg) ==
    CASE Includes(msg, "403")                -> "forbidden"
      [] Includes(msg, "timeout")            -> "timeout"
      [] Includes(msg, "insufficient funds") -> "funds"
      [] OTHER                               -> "other"

\* The notification specific to a category.
CategoryText(c) ==
    CASE c = "forbidden" -> "Access forbidden. Try using a different wallet or network."
      [] c = "timeout"   -> "Transaction may have succeeded but wasn't confirmed in time."
      [] OTHER           -> "Not enough SOL in your wallet for this operation."

SpecificTexts == {CategoryText(c) : c \in {"forbidden", "timeout", "funds"}}

\* C17 (as stated): in the create, mint and send panels, a submission that
\* failed with an Error shows the error notification of the category of its
\* message, and a message of no category shows an error notification that
\* is none of the specific ones.
C17_ErrorsClassified ==
    (panel \in {"create", "mint", "send"} /\ run.outcome \in {"failed", "threw"}
       /\ run.caught \in ThrownValues /\ run.caught.kind = "Error") =>
        LET c == Category(run.caught.msg)
            errors == {run.toasts[i].text : i \in
                          {j \in 1..Len(run.toasts) : run.toasts[j].type = "error"}}
        IN IF c = "other"
           THEN errors # {} /\ errors \cap SpecificTexts = {}
           ELSE errors = {CategoryText(c)}

\* The signatures the activation's explorer-link notifications embed.
LinkedSignatures ==
    {run.toasts[i].text : i \in
        {j \in 1..Len(run.toasts) :
            run.toasts[j].type = "info" /\ run.toasts[j].id = ""
              /\ run.toasts[j].text # "To see your token in Phantom"}}

\* C18 (as stated): in the create panel, when the confirmation of a
\* submitted transaction times out, the user is shown an explorer link with
\* the signature of that transaction, and with no other signature.
C18_TimeoutLinksOwnSignature ==
    (panel = "create" /\ run.pc = "idle" /\ run.failedAt = "confirm"
       /\ run.caught.kind = "Error" /\ Category(run.caught.msg) = "timeout") =>
        LinkedSignatures = {run.signature}

\* The number of submit-handler activations of the panel instance that are
\* between their start and their finish.
InFlight ==
    (IF run.pc # "idle" THEN 1 ELSE 0) + (IF sibling = "running" THEN 1 ELSE 0)

\* C19 (as stated): in a panel instance no submit handler starts while one
\* is in progress, and at most one activation is in progress at any time.
C19_SingleInFlight ==
    /\ ~run.overlapped
    /\ InFlight <= 1

C21_LookupFailover ==
    run.outcome \in {"lookupFound", "lookupNotFound"} =>
       LET sc == run.scan
           answering == {i \in DOMAIN sc.answers : sc.answers[i]}
       IN /\ \A i \in DOMAIN sc.queried : sc.queried[i] = i
          /\ IF answering # {}
             THEN /\ \A j \in answering : sc.found <= j
                  /\ sc.found \in answering
                  /\ Len(sc.queried) = sc.found
                  /\ manualToken # NoToken
                  /\ manualToken.mint = run.startForm.mintAddress
                  /\ run.outcome = "lookupFound"
                  /\ HasSuccessToast
             ELSE /\ sc.found = 0
                  /\ Len(sc.queried) = Len(sc.answers)
                  /\ manualToken = NoToken
                  /\ run.outcome = "lookupNotFound"
                  /\ \E i \in DOMAIN run.toasts :
                        run.toasts[i] =
                           Toast("error", "Token not found on any network", "")

\* Two endpoints failed, the third answered and the fourth, which would
\* have answered too, was not asked.
C21_Witness ==
    /\ run.outcome = "lookupFound"
    /\ run.scan.found = 3
    /\ run.scan.answers[4]
    /\ run.scan.queried = <<1, 2, 3>>
    /\ manualToken # NoToken

\* C22 (as stated): the delay before retry number n is at least half of and
\* strictly less than baseDelay * 2^n, and each delay of one withRetry call
\* is strictly larger than the one before it.
C22_DelayGrows ==
    \A n \in 1 .. Len(delays) :
       /\ FullDelay(baseDelay, n - 1) <= 2 * delays[n]
       /\ delays[n] < FullDelay(baseDelay, n - 1)
       /\ n > 1 => delays[n] > delays[n - 1]

\* C22 (amended): with baseDelay > 0 the delay before retry number n is at
\* least half of and strictly less than baseDelay * 2^n and each delay is
\* strictly larger than the one before it; with baseDelay = 0 every delay
\* is 0.
C22_DelayGrowsPositiveBase ==
    \A n \in 1 .. Len(delays) :
       /\ baseDelay > 0 =>
             /\ FullDelay(baseDelay, n - 1) <= 2 * delays[n]
             /\ delays[n] < FullDelay(baseDelay, n - 1)
             /\ n > 1 => delays[n] > delays[n - 1]
       /\ baseDelay = 0 => delays[n] = 0

\* Three delays with a positive base: the first with the largest jitter, the
\* second with the smallest.
C22_Witness ==
    /\ baseDelay > 0
    /\ Len(delays) = 3
    /\ delays[1] = Delay(baseDelay, 0, JitterSteps - 1)
    /\ delays[2] = Delay(baseDelay, 1, 0)

\* C23: in the list panel, a poll in which every endpoint failed ends with
\* the panel's error state set.
C23_PollFailureSurfaced ==
    [][(mounted /\ mounted' /\ FetchCount' < FetchCount /\
        lastPollEnd' = "allFailed") => listError' # ""]_vars

\* What the list panel shows of `tokens`: nothing without a wallet, while
\* loading or while an error is shown.
Displayed ==
    IF ~mounted \/ publicKey = "" \/ listLoading \/ listError # ""
    THEN {}
    ELSE tokens

\* C27: whenever the list panel has settled, the token rows it displays
\* were read for the wallet that is active now: nothing is displayed
\* without a wallet and no poll started for an earlier wallet is displayed
\* after the wallet changed.
C27_DisplayMatchesIdentity ==
    phase = "settled" => \A row \in Displayed : row.owner = publicKey

\* C24: every submission goes to, and every confirmation is asked of, the
\* devnet endpoint the wallet provider configures.
C24_TargetNetwork ==
    /\ run.sentTo \in {"", RpcEndpoint}
    /\ run.confirmedAt \in {"", RpcEndpoint}

\* C25: the lookup the list panel starts on its own when a wallet becomes
\* available is made for the preset address that was filled in.
C25_AutoFetchSeesPreset ==
    run.auto => /\ mintAddress = PresetMint
                /\ run.startForm.mintAddress = PresetMint
                /\ run.outcome # "lookupRejected"

\* C28: in the wallet info panel, the first balance fetch started after a
\* fetch failed with no balance known starts no sooner than the 30-second
\* interval after that failure.
C28_RefreshPaced ==
    restartedAt # -1 => restartedAt - lastFailedAt >= IntervalUnits

\* The notifications of the run that carry the id of its loading toast.
SameIdToasts == {i \in DOMAIN run.toasts : run.toasts[i].id = "t"}

\* C26: in the send and mint panels, once a handler that showed its loading
\* notification has finished, the latest notification under that id is a
\* success or an error: the loading notification has been replaced.
C26_LoadingResolved ==
    (/\ panel \in RetryPanels
     /\ run.pc = "idle"
     /\ SameIdToasts # {}) =>
        \E i \in SameIdToasts :
           /\ \A j \in SameIdToasts : j <= i
           /\ run.toasts[i].type \in {"success", "error"}

\* C29: when the send panel finds no token account of the sender for the
\* mint, it emits the error notification, has built and submitted no
\* transaction, leaves the form fields as they were and is idle again.
C29_NoSourceAccount ==
    (panel = "send" /\ run.outcome = "noSourceAccount") =>
       /\ run.toasts[Len(run.toasts)] =
             Toast("error", "You don't have a token account for this token", "t")
       /\ run.tx = <<>>
       /\ run.submits = 0
       /\ run.signature = ""
       /\ Form = run.startForm
       /\ run.pc = "idle"
       /\ ~isLoading

\* The send panel has read the mint, found no source account and stopped.
C29_Witness ==
    /\ panel = "send"
    /\ run.outcome = "noSourceAccount"
    /\ run.lookup.state = "returned"
    /\ run.netCalls >= 2

\* C30: on the create panel the decimals value is always an integer in
\* 0..9, whatever strings the decimals field received and however many
\* submissions were made, and the initializeMint instruction of every
\* transaction the panel builds carries decimals in 0..9.
C30_DecimalsInRange ==
    panel = "create" =>
        /\ decimals \in 0 .. 9
        /\ run.heldDecimals \in 0 .. 9
        /\ \A i \in 1 .. Len(run.tx) :
              run.tx[i].op = "initializeMint" => run.tx[i].amount \in 0 .. 9

\* A create submission built its transaction after the decimals field was
\* changed away from its initial 9.
C30_Witness ==
    /\ panel = "create"
    /\ \E i \in 1 .. Len(run.tx) :
          run.tx[i].op = "initializeMint" /\ run.tx[i].amount = 1

====
